---------------------------- MODULE Spec2Model ----------------------------
(***************************************************************************)
(* A model of the ONS extraction code of the ashe repository:              *)
(*   src/get_data/initial_api_extraction.py  (query_ons_api,               *)
(*       get_ashe_datasets, get_versions_from_datasets,                    *)
(*       download_observations_from_versions,                              *)
(*       download_dimensions_from_versions, download_inflation)            *)
(*   src/get-data/initial_api_extraction.py  (standalone get_ashe_datasets)*)
(*   src/run_pipeline/run_data_extraction.py (the pipeline script)         *)
(*                                                                         *)
(* Strings that the code inspects (keywords, search terms) are sequences   *)
(* of one-character strings.  A pandas DataFrame is a sequence of rows     *)
(* (records); a column that no row carries does not exist, and selecting   *)
(* it raises KeyError, as in pandas.  The API server is the record `api`.  *)
(***************************************************************************)
EXTENDS Integers, Sequences, FiniteSets, TLC

VARIABLES
    prog,   \* the entry point that this run executes
    api,    \* the server: the resources it serves
    env,    \* the Python process: how the name read by find_project_root resolves
    inp,    \* the arguments of the entry point
    pc,     \* position in the running code
    loc,    \* local variables of the running function
    reqs,   \* every HTTP request issued so far, in order
    files,  \* every file write so far, in order
    log,    \* every printed warning so far, in order
    err,    \* the exception that ended the run, if one did
    ret     \* the value returned by the entry point

vars == <<prog, api, env, inp, pc, loc, reqs, files, log, err, ret>>

\* what no step of the code assigns
static == <<prog, env, inp>>

---------------------------------------------------------------------------
(* Bounds of the model *)

\* largest number of items of the collection served to a single client call
MaxItems == 4
\* number of items the server returns when the request carries no limit
DefaultPageSize == 2
\* longest search-term list handed to the filter
MaxTerms == 2
\* longest keyword list of a dataset handed to the filter
MaxKeywords == 2

---------------------------------------------------------------------------
(* Generic helpers *)

Min(a, b) == IF a <= b THEN a ELSE b

Range(s) == {s[i] : i \in 1..Len(s)}

Take(s, n) == SubSeq(s, 1, Min(n, Len(s)))

RECURSIVE Flatten(_)
Flatten(ss) == IF ss = <<>> THEN <<>> ELSE Head(ss) \o Flatten(Tail(ss))

SeqsUpTo(S, n) == UNION {[1..k -> S] : k \in 0..n}

\* the elements of s without repetition, first occurrence kept, order kept
RECURSIVE Unique(_)
Unique(s) ==
    IF s = <<>> THEN <<>>
    ELSE LET init == Unique(SubSeq(s, 1, Len(s) - 1))
             last == s[Len(s)]
         IN  IF last \in Range(init) THEN init ELSE Append(init, last)

NoDuplicates(s) == \A i, j \in 1..Len(s) : s[i] = s[j] => i = j

---------------------------------------------------------------------------
(* Strings: str.lower, substring search, "|".join, regex alternation *)

UpperCase == <<"A", "B", "C", "D", "E", "F", "G", "H", "I", "J", "K", "L", "M",
               "N", "O", "P", "Q", "R", "S", "T", "U", "V", "W", "X", "Y", "Z">>
LowerCase == <<"a", "b", "c", "d", "e", "f", "g", "h", "i", "j", "k", "l", "m",
               "n", "o", "p", "q", "r", "s", "t", "u", "v", "w", "x", "y", "z">>

LowerChar(c) ==
    IF \E i \in 1..Len(UpperCase) : UpperCase[i] = c
    THEN LowerCase[CHOOSE i \in 1..Len(UpperCase) : UpperCase[i] = c]
    ELSE c

Lower(s) == [i \in 1..Len(s) |-> LowerChar(s[i])]

\* t occurs in s as a contiguous substring
Contains(s, t) ==
    \E i \in 0..(Len(s) - Len(t)) : SubSeq(s, i + 1, i + Len(t)) = t

\* "|".join(parts): parts is a list of strings
RECURSIVE Join(_)
Join(parts) ==
    IF parts = <<>> THEN <<>>
    ELSE IF Len(parts) = 1 THEN parts[1]
    ELSE parts[1] \o <<"|">> \o Join(Tail(parts))

\* iterating a Python str yields its characters, each a one-character str
Chars(s) == [i \in 1..Len(s) |-> <<s[i]>>]

\* the alternatives of the regular expression `pattern`: the text between
\* the "|" operators (the terms of the model hold no other metacharacter)
RECURSIVE Alternatives(_)
Alternatives(pattern) ==
    IF \E i \in 1..Len(pattern) : pattern[i] = "|"
    THEN LET i == CHOOSE k \in 1..Len(pattern) :
                      /\ pattern[k] = "|"
                      /\ \A j \in 1..(k - 1) : pattern[j] # "|"
         IN  {SubSeq(pattern, 1, i - 1)}
                 \cup Alternatives(SubSeq(pattern, i + 1, Len(pattern)))
    ELSE {pattern}

\* re.search(pattern, s, re.IGNORECASE) is not None
RegexSearch(pattern, s) ==
    \E alt \in Alternatives(Lower(pattern)) : Contains(Lower(s), alt)

---------------------------------------------------------------------------
(* Cells of the keywords column *)

NaN == [t |-> "nan", v |-> <<>>]
KwList(l) == [t |-> "list", v |-> l]
KwStr(s) == [t |-> "str", v |-> s]

---------------------------------------------------------------------------
(* Exceptions *)

NoErr == [type |-> "none", text |-> "", code |-> 0]
ConnectError(text) == [type |-> "Exception", text |-> text, code |-> 0]
StatusError(text, code) == [type |-> "Exception", text |-> text, code |-> code]
KeyError(key) == [type |-> "KeyError", text |-> key, code |-> 0]
ValueError(text) == [type |-> "ValueError", text |-> text, code |-> 0]
IndexError(text) == [type |-> "IndexError", text |-> text, code |-> 0]

---------------------------------------------------------------------------
(* The HTTP layer *)

\* what requests.get meets: no connection, or a response with a status
Outcomes ==
    {[conn |-> FALSE, status |-> 0]}
        \cup {[conn |-> TRUE, status |-> s] : s \in {200, 404, 503}}

Ok200 == [conn |-> TRUE, status |-> 200]

\* the value of `limit` in the parameters of a request that carries none
NoLimit == -1

NoDoc == [total_count |-> 0, items |-> <<>>]

\* one requests.get as the log keeps it: the request, what it met, and the
\* document of the response
Exchange(url, limit, o, doc) ==
    [url |-> url, limit |-> limit, conn |-> o.conn, status |-> o.status, doc |-> doc]

Failed(x) == ~x.conn \/ x.status # 200

\* the collection that server w serves at url
Coll(w, url) ==
    CASE url[1] = "datasets" -> w.datasets
      [] url[1] = "editions" -> w.editions[url[2]]
      [] url[1] = "versions" -> w.versions[url[2]]
      [] url[1] = "code-lists" -> w.dimeditions[url[2]]
      [] url[1] = "https:" -> w.codes[url]

\* the envelope the server answers a collection request with
Respond(w, url, limit) ==
    LET c == Coll(w, url)
    IN  [total_count |-> Len(c),
         items |-> Take(c, IF limit = NoLimit THEN DefaultPageSize ELSE limit)]


---------------------------------------------------------------------------
(* query_ons_api: the count-then-fetch-all client *)

QueryConnectText == "Failed to connect to ONS API endpoint. Please check the URL or your internet connection."
QueryStatusText == "Error: Status code: {status_code}"

QueryResult(raised, e, doc, rs) ==
    [raised |-> raised, err |-> e, doc |-> doc, reqs |-> rs]

\* query_ons_api without the second resp.json(): the document parsed
\* from the first response is returned
QueryOnsApiStaleJson(url, o1, o2, w1, w2) ==
    IF ~o1.conn
    THEN QueryResult(TRUE, ConnectError(QueryConnectText), NoDoc,
                     <<Exchange(url, NoLimit, o1, NoDoc)>>)
    ELSE IF o1.status # 200
    THEN QueryResult(TRUE, StatusError(QueryStatusText, o1.status), NoDoc,
                     <<Exchange(url, NoLimit, o1, NoDoc)>>)
    ELSE LET json == Respond(w1, url, NoLimit)
             items == json.total_count
             first == Exchange(url, NoLimit, o1, json)
         IN  IF ~o2.conn
             THEN QueryResult(TRUE, ConnectError(QueryConnectText), NoDoc,
                              <<first, Exchange(url, items, o2, NoDoc)>>)
             ELSE IF o2.status # 200
             THEN QueryResult(TRUE, StatusError(QueryStatusText, o2.status), NoDoc,
                              <<first, Exchange(url, items, o2, NoDoc)>>)
             ELSE QueryResult(FALSE, NoErr, json,
                      <<first, Exchange(url, items, o2, Respond(w2, url, items))>>)

\* o1, o2: what the first and the second requests.get meet; w1, w2: the
\* server as it is when the first and the second request reach it
QueryOnsApi(url, o1, o2, w1, w2) ==
    IF ~o1.conn
    THEN QueryResult(TRUE, ConnectError(QueryConnectText), NoDoc,
                     <<Exchange(url, NoLimit, o1, NoDoc)>>)
    ELSE IF o1.status # 200
    THEN QueryResult(TRUE, StatusError(QueryStatusText, o1.status), NoDoc,
                     <<Exchange(url, NoLimit, o1, NoDoc)>>)
    ELSE LET json == Respond(w1, url, NoLimit)
             items == json.total_count
             first == Exchange(url, NoLimit, o1, json)
         IN  IF ~o2.conn
             THEN QueryResult(TRUE, ConnectError(QueryConnectText), NoDoc,
                              <<first, Exchange(url, items, o2, NoDoc)>>)
             ELSE IF o2.status # 200
             THEN QueryResult(TRUE, StatusError(QueryStatusText, o2.status), NoDoc,
                              <<first, Exchange(url, items, o2, NoDoc)>>)
             ELSE LET json2 == Respond(w2, url, items)
                  IN  QueryResult(FALSE, NoErr, json2,
                                  <<first, Exchange(url, items, o2, json2)>>)

---------------------------------------------------------------------------
(* get_ashe_datasets: the keyword filter *)

\* search_terms as passed: a list of strings, or (download_inflation) a str
TermList(l) == [t |-> "list", v |-> l]
TermStr(s) == [t |-> "str", v |-> s]

\* "|".join(search_terms)
JoinTerms(st) == IF st.t = "list" THEN Join(st.v) ELSE Join(Chars(st.v))

\* pd.DataFrame(items) of dataset items: the keys of the items become the
\* columns, and an item without a key holds NaN in its column
DatasetFrame(items) ==
    [columns |-> (IF items = <<>> THEN {} ELSE {"id", "links"})
                     \cup (IF \E i \in 1..Len(items) : items[i].keywords # NaN
                           THEN {"keywords"} ELSE {}),
     rows |-> items]

EmptyFrame == [columns |-> {}, rows |-> <<>>]

\* df.explode("keywords"): one row per element of a list cell; an empty list
\* becomes NaN; a scalar cell is left as it is
ExplodeRow(r) ==
    IF r.keywords.t = "list"
    THEN IF r.keywords.v = <<>>
         THEN <<[r EXCEPT !.keywords = NaN]>>
         ELSE [k \in 1..Len(r.keywords.v) |->
                   [r EXCEPT !.keywords = KwStr(r.keywords.v[k])]]
    ELSE <<r>>

Explode(rows) == Flatten([i \in 1..Len(rows) |-> ExplodeRow(rows[i])])

\* unnested["keywords"].str.contains(pattern, case = False, na = False)
StrContains(cell, pattern) == cell.t = "str" /\ RegexSearch(pattern, cell.v)

RECURSIVE SelectRows(_, _)
SelectRows(rows, pattern) ==
    IF rows = <<>> THEN <<>>
    ELSE IF StrContains(Head(rows).keywords, pattern)
    THEN <<Head(rows)>> \o SelectRows(Tail(rows), pattern)
    ELSE SelectRows(Tail(rows), pattern)

\* drop_duplicates(subset = "id"): the first row of every id is kept
RECURSIVE DropDuplicatesById(_)
DropDuplicatesById(rows) ==
    IF rows = <<>> THEN <<>>
    ELSE LET init == DropDuplicatesById(SubSeq(rows, 1, Len(rows) - 1))
             last == rows[Len(rows)]
         IN  IF \E i \in 1..Len(init) : init[i].id = last.id
             THEN init ELSE Append(init, last)

FilterResult(raised, e, df) == [raised |-> raised, err |-> e, df |-> df]

\* lines 95-103 of get_ashe_datasets: explode, filter, deduplicate
FilterFrame(df, search_terms) ==
    IF "keywords" \notin df.columns
    THEN FilterResult(TRUE, KeyError("keywords"), EmptyFrame)
    ELSE FilterResult(FALSE, NoErr,
             [columns |-> df.columns,
              rows |-> DropDuplicatesById(
                           SelectRows(Explode(df.rows), JoinTerms(search_terms)))])

\* lines 93-103 of get_ashe_datasets, applied to the items of a response
FilterDatasets(items, search_terms) == FilterFrame(DatasetFrame(items), search_terms)

Ids(df) == {df.rows[i].id : i \in 1..Len(df.rows)}


---------------------------------------------------------------------------
(* The standalone get_ashe_datasets of src/get-data *)

\* the whole function: both requests, then the filter on dataset_json
StandaloneGetAsheDatasets(url, search_terms, o1, o2, w1, w2) ==
    IF ~o1.conn
    THEN QueryResult(TRUE, ConnectError(QueryConnectText), EmptyFrame,
                     <<Exchange(url, NoLimit, o1, NoDoc)>>)
    ELSE IF o1.status # 200
    THEN QueryResult(TRUE, StatusError(QueryStatusText, o1.status), EmptyFrame,
                     <<Exchange(url, NoLimit, o1, NoDoc)>>)
    ELSE LET dataset_json == Respond(w1, url, NoLimit)
             items == dataset_json.total_count
             first == Exchange(url, NoLimit, o1, dataset_json)
         IN  IF ~o2.conn
             THEN QueryResult(TRUE, ConnectError(QueryConnectText), EmptyFrame,
                              <<first, Exchange(url, items, o2, NoDoc)>>)
             ELSE IF o2.status # 200
             THEN QueryResult(TRUE, StatusError(QueryStatusText, o2.status), EmptyFrame,
                              <<first, Exchange(url, items, o2, NoDoc)>>)
             ELSE LET f == FilterDatasets(dataset_json["items"], search_terms)
                  IN  QueryResult(f.raised, f.err, f.df,
                          <<first, Exchange(url, items, o2, Respond(w2, url, items))>>)

---------------------------------------------------------------------------
(* Resources of the modelled server *)

Ashe == <<"a", "s", "h", "e">>
Earnings == <<"e", "a", "r", "n", "i", "n", "g", "s">>
Inflation == <<"i", "n", "f", "l", "a", "t", "i", "o", "n">>

\* search_terms default of get_ashe_datasets
DefaultTerms == TermList(<<Ashe, Earnings>>)

DatasetsUrl == <<"datasets">>

Dataset(id, keywords) ==
    [id |-> id, keywords |-> keywords,
     editions |-> <<"editions", id>>, latest_version |-> <<"version", id>>]

EmptyApi ==
    [datasets |-> <<>>, editions |-> <<>>, versions |-> <<>>,
     dimeditions |-> <<>>, codes |-> <<>>, latest |-> <<>>, dimdoc |-> <<>>]

IdPool == <<"d1", "d2", "d3", "d4", "d5", "d6">>

\* a /datasets collection of up to MaxItems datasets, each tagged with a
\* keyword that the default terms match or with one they do not
PagedKeywords == {KwList(<<<<"A", "S", "H", "E">>>>), KwList(<<<<"p", "a", "y">>>>)}

PagedWorlds ==
    {[EmptyApi EXCEPT !.datasets = [i \in 1..n |-> Dataset(IdPool[i], kw[i])]] :
        n \in 0..MaxItems, kw \in [1..MaxItems -> PagedKeywords]}

NoInput == [url |-> <<>>, search_terms |-> TermList(<<>>), items |-> <<>>,
            dataset_id |-> "", version_id |-> "", source_df |-> <<>>]
\* the local variables of the functions, before any is assigned
NoLocals ==
    [i |-> 0, again |-> EmptyFrame,
     version_id |-> "", source_df |-> EmptyFrame, rows |-> <<>>,
     ids |-> <<>>, hrefs |-> <<>>, resp_json |-> <<>>, link_hrefs |-> <<>>,
     link_responses |-> <<>>, all_code_hrefs |-> <<>>,
     latest_url |-> <<>>, download_url |-> <<>>,
     ashe_datasets |-> EmptyFrame, dataset_ids |-> <<>>, k |-> 0,
     version_hrefs |-> <<>>, version_responses |-> <<>>,
     versions |-> <<>>, versions_df |-> EmptyFrame, version_ids |-> <<>>]
\* an entry point that never calls find_project_root
NoEnv == [marker |-> "unused"]

Untouched ==
    /\ reqs = <<>> /\ files = <<>> /\ log = <<>>
    /\ err = NoErr /\ ret = EmptyFrame

Fresh ==
    /\ pc = "start" /\ loc = NoLocals
    /\ Untouched

---------------------------------------------------------------------------
(* Specification of one query_ons_api call against a changing collection *)

InitQuery ==
    /\ env = NoEnv
    /\ prog = "query_ons_api"
    /\ api \in PagedWorlds
    /\ inp = [NoInput EXCEPT !.url = DatasetsUrl]
    /\ Fresh

\* query_ons_api(url); the collection may change between its two requests
CallQuery ==
    /\ prog = "query_ons_api" /\ pc = "start"
    /\ \E o1, o2 \in Outcomes, w2 \in PagedWorlds :
          LET r == QueryOnsApi(inp.url, o1, o2, api, w2)
          IN  /\ api' = w2
              /\ reqs' = reqs \o r.reqs
              /\ err' = r.err
              /\ ret' = r.doc
              /\ pc' = IF r.raised THEN "raised" ELSE "done"
    /\ UNCHANGED <<static, loc, files, log>>

NextQuery == CallQuery

SpecQuery == InitQuery /\ [][NextQuery]_vars

---------------------------------------------------------------------------
(* Specification of the keyword filter on arbitrary items and terms *)

KeywordPool == {<<"A", "s">>, <<"h", "e">>}
TermPool == {<<"a", "s">>, <<"H", "E">>, <<"s", "h">>}
FilterIds == {"d1", "d2"}

KeywordCells == {NaN} \cup {KwList(l) : l \in SeqsUpTo(KeywordPool, MaxKeywords)}

\* collections whose identifiers are unique, as the API serves them
FilterItems ==
    {<<>>}
        \cup {<<Dataset("d1", k)>> : k \in KeywordCells}
        \cup {<<Dataset("d1", k1), Dataset("d2", k2)>> : k1, k2 \in KeywordCells}

InitFilter ==
    /\ env = NoEnv
    /\ prog = "filter"
    /\ api = EmptyApi
    /\ \E items \in FilterItems, terms \in SeqsUpTo(TermPool, MaxTerms) :
          inp = [NoInput EXCEPT !.items = items, !.search_terms = TermList(terms)]
    /\ Fresh

\* the filter of get_ashe_datasets on the items of the response
ApplyFilter ==
    /\ prog = "filter" /\ pc = "start"
    /\ LET f == FilterDatasets(inp.items, inp.search_terms)
       IN  /\ err' = f.err
           /\ ret' = f.df
           /\ pc' = IF f.raised THEN "raised" ELSE "filtered"
    /\ UNCHANGED <<static, api, loc, reqs, files, log>>

\* the same filter applied to its own result
ApplyFilterAgain ==
    /\ prog = "filter" /\ pc = "filtered"
    /\ LET f == FilterFrame(ret, inp.search_terms)
       IN  /\ err' = f.err
           /\ loc' = [loc EXCEPT !.again = f.df]
           /\ pc' = IF f.raised THEN "raised_again" ELSE "done"
    /\ UNCHANGED <<static, api, ret, reqs, files, log>>

NextFilter == ApplyFilter \/ ApplyFilterAgain

SpecFilter == InitFilter /\ [][NextFilter]_vars

---------------------------------------------------------------------------
(* Specification of the standalone get_ashe_datasets on a paged collection *)

InitStandalone ==
    /\ env = NoEnv
    /\ prog = "standalone"
    /\ api \in PagedWorlds
    /\ inp = [NoInput EXCEPT !.url = DatasetsUrl, !.search_terms = DefaultTerms]
    /\ Fresh

CallStandalone ==
    /\ prog = "standalone" /\ pc = "start"
    /\ \E o1, o2 \in Outcomes :
          LET r == StandaloneGetAsheDatasets(inp.url, inp.search_terms, o1, o2, api, api)
          IN  /\ reqs' = reqs \o r.reqs
              /\ err' = r.err
              /\ ret' = r.doc
              /\ pc' = IF r.raised THEN "raised" ELSE "done"
    /\ UNCHANGED <<static, api, loc, files, log>>

NextStandalone == CallStandalone

SpecStandalone == InitStandalone /\ [][NextStandalone]_vars

---------------------------------------------------------------------------
(* find_project_root *)

\* Line 33 of directory_navigation.py reads the name `marker`; the parameter
\* is called marker_folder and the module binds no `marker`, so in the
\* module as shipped the read raises NameError ("unbound").  The two other
\* values are the module with the name bound to the marker folder: the walk
\* up the directories finds the folder ("found") or reaches the filesystem
\* root without it ("missing").
RootStates == {"unbound", "missing", "found"}

NameError(name) == [type |-> "NameError", text |-> name, code |-> 0]
RuntimeError(text) == [type |-> "RuntimeError", text |-> text, code |-> 0]

RootNotFoundText == "Project root not found. Please ensure specified marker folder exists."

FindProjectRoot(e) ==
    IF e.marker = "unbound"
    THEN [raised |-> TRUE, err |-> NameError("marker")]
    ELSE IF e.marker = "found"
    THEN [raised |-> FALSE, err |-> NoErr]
    ELSE [raised |-> TRUE, err |-> RuntimeError(RootNotFoundText)]

\* an open(save_path, "wb") / to_csv(save_path) with what was written
Write(path, body) == [path |-> path, body |-> body]

---------------------------------------------------------------------------
(* Version records and the versions table *)

\* cells of the downloads column
NoDownloads == [t |-> "nan", href |-> <<>>]       \* the item has no downloads key
NoCsv == [t |-> "nocsv", href |-> <<>>]           \* downloads without a csv key
NullCsv == [t |-> "null", href |-> <<>>]          \* downloads.csv is null
Csv(href) == [t |-> "csv", href |-> href]         \* downloads.csv.href

\* cells of the dimensions column
NoDimensions == [t |-> "nan", v |-> <<>>]
Dimensions(hrefs) == [t |-> "list", v |-> hrefs]

Version(id, dataset_id, version, downloads, dimensions) ==
    [id |-> id, dataset_id |-> dataset_id, version |-> version,
     downloads |-> downloads, dimensions |-> dimensions]

\* pd.DataFrame(items) / pd.concat of version items
VersionFrame(items) ==
    [columns |-> (IF items = <<>> THEN {} ELSE {"id", "dataset_id", "version"})
                     \cup (IF \E i \in 1..Len(items) : items[i].downloads # NoDownloads
                           THEN {"downloads"} ELSE {})
                     \cup (IF \E i \in 1..Len(items) : items[i].dimensions # NoDimensions
                           THEN {"dimensions"} ELSE {}),
     rows |-> items]

RECURSIVE RowsWhere(_, _)
RowsWhere(rows, id) ==
    IF rows = <<>> THEN <<>>
    ELSE IF Head(rows).id = id
    THEN <<Head(rows)>> \o RowsWhere(Tail(rows), id)
    ELSE RowsWhere(Tail(rows), id)

RECURSIVE WithCsv(_)
WithCsv(rows) ==
    IF rows = <<>> THEN <<>>
    ELSE IF Head(rows).downloads.t = "csv"
    THEN <<Head(rows)>> \o WithCsv(Tail(rows))
    ELSE WithCsv(Tail(rows))

---------------------------------------------------------------------------
(* download_observations_from_versions *)

ObsStatusText == "Failed to download CSV from {hrefs[i]}. Status code: {status_code}"

ObsPath(row) == <<"bronze_files/", row.dataset_id, "_", row.version, ".csv">>

\* lines 175-193: the rows of version_id that hold a csv download, then the
\* project root
ObsSelect(version_id, source_df, e) ==
    IF "id" \notin source_df.columns
    THEN [raised |-> TRUE, err |-> KeyError("id"), rows |-> <<>>]
    ELSE IF "downloads" \notin source_df.columns
    THEN [raised |-> TRUE, err |-> KeyError("downloads"), rows |-> <<>>]
    ELSE LET mine == RowsWhere(source_df.rows, version_id)
             \* source_df["downloads"].apply(pd.Series): one column per key
             \* that a dict of these rows holds
             hasCsvColumn ==
                 \E i \in 1..Len(mine) : mine[i].downloads.t \in {"csv", "null"}
         IN  IF ~hasCsvColumn
             THEN [raised |-> TRUE, err |-> KeyError("csv"), rows |-> <<>>]
             ELSE LET root == FindProjectRoot(e)
                  IN  IF root.raised
                      THEN [raised |-> TRUE, err |-> root.err, rows |-> <<>>]
                      ELSE [raised |-> FALSE, err |-> NoErr, rows |-> WithCsv(mine)]

\* lines 195-206, one pass of the loop: the status error raised inside the
\* try is caught by the bare except of the same try
ObsDownload(row, o) ==
    IF ~o.conn
    THEN [raised |-> TRUE, err |-> ConnectError(QueryConnectText), writes |-> <<>>]
    ELSE IF o.status = 200
    THEN [raised |-> FALSE, err |-> NoErr,
          writes |-> <<Write(ObsPath(row), row.downloads.href)>>]
    ELSE [raised |-> TRUE, err |-> ConnectError(QueryConnectText), writes |-> <<>>]

---------------------------------------------------------------------------
(* Specification of download_observations_from_versions on a versions table *)

ObsVersionIds == {"v1", "v2"}
ObsDownloads(id) == {NoDownloads, NoCsv, NullCsv, Csv(<<"csv", id>>)}

ObsRows ==
    {Version(id, "ashe-a", id, d, NoDimensions) :
        id \in ObsVersionIds, d \in UNION {ObsDownloads(x) : x \in ObsVersionIds}}

\* tables of one or two version records; the same id may occupy two rows,
\* as in a table that was not deduplicated
ObsFrames == {VersionFrame(rows) : rows \in SeqsUpTo(ObsRows, 2) \ {<<>>}}

InitObs ==
    /\ prog = "download_observations_from_versions"
    /\ api = EmptyApi
    /\ env \in [marker : RootStates]
    /\ \E df \in ObsFrames, id \in ObsVersionIds :
          /\ id \in Ids(df)
          /\ inp = [NoInput EXCEPT !.version_id = id, !.source_df = df]
          /\ loc = [NoLocals EXCEPT !.version_id = id, !.source_df = df]
    /\ pc = "obs_start"
    /\ Untouched

\* lines 175-193 of download_observations_from_versions
ObsBegin ==
    /\ pc = "obs_start"
    /\ LET r == ObsSelect(loc.version_id, loc.source_df, env)
       IN  /\ err' = r.err
           /\ loc' = [loc EXCEPT !.rows = r.rows, !.i = 1]
           /\ pc' = IF r.raised THEN "raised" ELSE "obs_loop"
    /\ UNCHANGED <<static, api, reqs, files, log, ret>>

\* lines 194-206: one pass of the download loop
ObsLoop ==
    /\ pc = "obs_loop" /\ loc.i <= Len(loc.rows)
    /\ \E o \in Outcomes :
          LET row == loc.rows[loc.i]
              r == ObsDownload(row, o)
          IN  /\ reqs' = Append(reqs, Exchange(row.downloads.href, NoLimit, o, NoDoc))
              /\ files' = files \o r.writes
              /\ err' = r.err
              /\ loc' = [loc EXCEPT !.i = loc.i + 1]
              /\ pc' = IF r.raised THEN "raised" ELSE "obs_loop"
    /\ UNCHANGED <<static, api, log, ret>>

\* the loop is exhausted: the function returns
ObsReturn ==
    /\ pc = "obs_loop" /\ loc.i > Len(loc.rows)
    /\ pc' = IF prog = "download_observations_from_versions" THEN "done" ELSE "run_obs"
    /\ UNCHANGED <<static, api, loc, reqs, files, log, err, ret>>

NextObs == ObsBegin \/ ObsLoop \/ ObsReturn

SpecObs == InitObs /\ [][NextObs]_vars

---------------------------------------------------------------------------
(* download_dimensions_from_versions *)

\* the href of a dimension descriptor, and the editions link of its document
DimensionHref(name) == <<"code-lists", name>>
EditionsHref(name) == <<"code-lists", name, "editions">>

\* the href of a code list, as href.split("/") cuts it
CodesHref(name, edition) ==
    <<"https:", "", "api.beta.ons.gov.uk", "v1", "code-lists", name,
      "editions", edition, "codes">>

\* an item of a code-list editions collection: its links hold codes.href, or
\* hold no codes entry
CodesLink(href) == [t |-> "codes", href |-> href]
NoCodesLink == [t |-> "nocodes", href |-> <<>>]

\* what a dimension href answers: the document with an editions entry, a
\* document without one, or 404 with a JSON body or with a body that is
\* not JSON
DimDocs == {"ok", "noeditions", "404json", "404text"}

DimStatus(kind) == IF kind \in {"404json", "404text"} THEN 404 ELSE 200

JSONDecodeError == [type |-> "JSONDecodeError", text |-> "", code |-> 0]
RequestsConnectionError == [type |-> "ConnectionError", text |-> "", code |-> 0]
NoObjectsText == "No objects to concatenate"

\* lines 231-242: the hrefs of the dimensions of one version
DimHrefsOf(source_df, version_id) ==
    IF "dimensions" \notin source_df.columns
    THEN [raised |-> TRUE, err |-> KeyError("dimensions"), hrefs |-> <<>>]
    ELSE LET mine == RowsWhere(source_df.rows, version_id)
             \* explode: the elements of the lists; apply(pd.Series) has an
             \* href column only if some element is a dimension descriptor
             elems == Flatten([i \in 1..Len(mine) |->
                                  IF mine[i].dimensions.t = "list"
                                  THEN mine[i].dimensions.v ELSE <<>>])
         IN  IF elems = <<>>
             THEN [raised |-> TRUE, err |-> KeyError("href"), hrefs |-> <<>>]
             ELSE [raised |-> FALSE, err |-> NoErr,
                   hrefs |-> Unique([i \in 1..Len(elems) |-> DimensionHref(elems[i])])]

\* line 247: the documents with an editions entry; lines 250-252: their links
RECURSIVE EditionLinks(_, _)
EditionLinks(hrefs, resp_json) ==
    IF hrefs = <<>> THEN <<>>
    ELSE IF Head(resp_json) = "ok"
    THEN <<EditionsHref(Head(hrefs)[2])>> \o EditionLinks(Tail(hrefs), Tail(resp_json))
    ELSE EditionLinks(Tail(hrefs), Tail(resp_json))

\* all_code_hrefs[code_href] = dim_name on an insertion-ordered dict
DictPut(d, k, v) ==
    IF \E i \in 1..Len(d) : d[i].key = k
    THEN [i \in 1..Len(d) |-> IF d[i].key = k THEN [key |-> k, value |-> v] ELSE d[i]]
    ELSE Append(d, [key |-> k, value |-> v])

SkipText == "[WARNING] Skipping invalid link dict at index {idx}: {e}"
Warning(text, idx) == [text |-> text, idx |-> idx]

\* lines 260-266: the loop over the link dicts, from index idx on
RECURSIVE CollectCodes(_, _, _, _)
CollectCodes(dicts, idx, d, warnings) ==
    IF idx > Len(dicts) THEN [all_code_hrefs |-> d, log |-> warnings]
    ELSE IF dicts[idx].t = "codes" /\ Len(dicts[idx].href) >= 6
    THEN CollectCodes(dicts, idx + 1,
                      DictPut(d, dicts[idx].href, dicts[idx].href[6]), warnings)
    ELSE CollectCodes(dicts, idx + 1, d,
                      Append(warnings, Warning(SkipText, idx - 1)))

DimPath(dim_name) == <<"bronze_files/", dim_name, ".csv">>

---------------------------------------------------------------------------
(* Specification of download_dimensions_from_versions on a versions table *)

DimNames == {"sex", "year"}
DimVersionIds == <<"v1", "v2">>

DimCells ==
    {NoDimensions, Dimensions(<<>>), Dimensions(<<"sex">>), Dimensions(<<"year">>),
     Dimensions(<<"sex", "year">>)}

DimFrames ==
    {VersionFrame(<<>>)}
        \cup {VersionFrame(<<Version("v1", "ashe-a", "1", NoDownloads, c)>>) :
                 c \in DimCells}
        \cup {VersionFrame(<<Version("v1", "ashe-a", "1", NoDownloads, c1),
                             Version("v2", "ashe-a", "2", NoDownloads, c2)>>) :
                 c1, c2 \in DimCells}

\* the editions collection of a code list: no item, an item without a codes
\* link, one edition, or two editions of the same code list
DimEditions(name) ==
    {<<>>,
     <<NoCodesLink>>,
     <<CodesLink(CodesHref(name, "one-off"))>>,
     <<CodesLink(CodesHref(name, "one-off")), CodesLink(CodesHref(name, "2"))>>}

AllCodesHrefs == {CodesHref(n, e) : n \in DimNames, e \in {"one-off", "2"}}

\* the rows of a code list
CodeItems(href) == <<href[6], href[8]>>

DimWorlds ==
    {[EmptyApi EXCEPT !.dimdoc = doc, !.dimeditions = eds,
                      !.codes = [h \in AllCodesHrefs |-> CodeItems(h)]] :
        doc \in [DimNames -> DimDocs],
        eds \in {f \in [DimNames -> UNION {DimEditions(n) : n \in DimNames}] :
                    \A n \in DimNames : f[n] \in DimEditions(n)}}

InitDims ==
    /\ prog = "download_dimensions_from_versions"
    /\ api \in DimWorlds
    /\ env \in [marker : RootStates]
    /\ \E df \in DimFrames :
          /\ inp = [NoInput EXCEPT !.source_df = df]
          /\ loc = [NoLocals EXCEPT !.source_df = df]
    /\ pc = "dims_start"
    /\ Untouched

\* lines 226-230: the empty dict and the version ids to loop over
DimsBegin ==
    /\ pc = "dims_start"
    /\ IF "id" \notin loc.source_df.columns
       THEN /\ err' = KeyError("id")
            /\ pc' = "raised"
            /\ UNCHANGED loc
       ELSE /\ loc' = [loc EXCEPT
                          !.all_code_hrefs = <<>>,
                          !.ids = Unique([k \in 1..Len(loc.source_df.rows) |->
                                             loc.source_df.rows[k].id]),
                          !.i = 1]
            /\ pc' = "dims_version"
            /\ UNCHANGED err
    /\ UNCHANGED <<static, api, reqs, files, log, ret>>

\* lines 231-242: the dimension hrefs of the next version
DimsVersion ==
    /\ pc = "dims_version" /\ loc.i <= Len(loc.ids)
    /\ LET r == DimHrefsOf(loc.source_df, loc.ids[loc.i])
       IN  /\ err' = r.err
           /\ loc' = [loc EXCEPT !.hrefs = r.hrefs, !.resp_json = <<>>]
           /\ pc' = IF r.raised THEN "raised" ELSE "dims_get"
    /\ UNCHANGED <<static, api, reqs, files, log, ret>>

\* line 245, one element: requests.get(h).json(), the status is not looked at
DimsGet ==
    /\ pc = "dims_get" /\ Len(loc.resp_json) < Len(loc.hrefs)
    /\ \E conn \in BOOLEAN :
          LET h == loc.hrefs[Len(loc.resp_json) + 1]
              kind == api.dimdoc[h[2]]
          IN  IF ~conn
              THEN /\ reqs' = Append(reqs, Exchange(h, NoLimit,
                                         [conn |-> FALSE, status |-> 0], NoDoc))
                   /\ err' = RequestsConnectionError
                   /\ pc' = "raised"
                   /\ UNCHANGED loc
              ELSE /\ reqs' = Append(reqs, Exchange(h, NoLimit,
                                         [conn |-> TRUE, status |-> DimStatus(kind)], kind))
                   /\ IF kind = "404text"
                      THEN /\ err' = JSONDecodeError
                           /\ pc' = "raised"
                           /\ UNCHANGED loc
                      ELSE /\ loc' = [loc EXCEPT !.resp_json = Append(@, kind)]
                           /\ UNCHANGED <<err, pc>>
    /\ UNCHANGED <<static, api, files, log, ret>>

\* lines 246-252: the documents with an editions entry and their links
DimsEditions ==
    /\ pc = "dims_get" /\ Len(loc.resp_json) = Len(loc.hrefs)
    /\ LET link_hrefs == EditionLinks(loc.hrefs, loc.resp_json)
       IN  IF link_hrefs = <<>>
           THEN /\ err' = ValueError(NoObjectsText)
                /\ pc' = "raised"
                /\ UNCHANGED loc
           ELSE /\ loc' = [loc EXCEPT !.link_hrefs = link_hrefs,
                                      !.link_responses = <<>>]
                /\ pc' = "dims_links"
                /\ UNCHANGED err
    /\ UNCHANGED <<static, api, reqs, files, log, ret>>

\* line 254, one element: query_ons_api(l)
DimsLink ==
    /\ pc = "dims_links" /\ Len(loc.link_responses) < Len(loc.link_hrefs)
    /\ \E o1, o2 \in Outcomes :
          LET l == loc.link_hrefs[Len(loc.link_responses) + 1]
              r == QueryOnsApi(l, o1, o2, api, api)
          IN  /\ reqs' = reqs \o r.reqs
              /\ err' = r.err
              /\ loc' = IF r.raised THEN loc
                        ELSE [loc EXCEPT !.link_responses = Append(@, r.doc)]
              /\ pc' = IF r.raised THEN "raised" ELSE "dims_links"
    /\ UNCHANGED <<static, api, files, log, ret>>

\* lines 255-266: the link dicts of all items, and the codes hrefs in them
DimsCodes ==
    /\ pc = "dims_links" /\ Len(loc.link_responses) = Len(loc.link_hrefs)
    /\ LET dim_link_dicts ==
               Flatten([k \in 1..Len(loc.link_responses) |-> loc.link_responses[k].items])
       IN  IF dim_link_dicts = <<>>
           THEN /\ err' = KeyError("links")
                /\ pc' = "raised"
                /\ UNCHANGED <<loc, log>>
           ELSE LET c == CollectCodes(dim_link_dicts, 1, loc.all_code_hrefs, <<>>)
                IN  /\ loc' = [loc EXCEPT !.all_code_hrefs = c.all_code_hrefs,
                                          !.i = loc.i + 1]
                    /\ log' = log \o c.log
                    /\ pc' = "dims_version"
                    /\ UNCHANGED err
    /\ UNCHANGED <<static, api, reqs, files, ret>>

\* line 269, after the loop over the versions
DimsRoot ==
    /\ pc = "dims_version" /\ loc.i > Len(loc.ids)
    /\ LET root == FindProjectRoot(env)
       IN  /\ err' = root.err
           /\ pc' = IF root.raised THEN "raised" ELSE "dims_save"
           /\ loc' = [loc EXCEPT !.i = 1]
    /\ UNCHANGED <<static, api, reqs, files, log, ret>>

\* lines 271-276, one pass: fetch the code list and save it
DimsSave ==
    /\ pc = "dims_save" /\ loc.i <= Len(loc.all_code_hrefs)
    /\ \E o1, o2 \in Outcomes :
          LET href == loc.all_code_hrefs[loc.i].key
              dim_name == loc.all_code_hrefs[loc.i].value
              r == QueryOnsApi(href, o1, o2, api, api)
          IN  /\ reqs' = reqs \o r.reqs
              /\ err' = r.err
              /\ files' = IF r.raised THEN files
                          ELSE Append(files, Write(DimPath(dim_name), href))
              /\ loc' = [loc EXCEPT !.i = loc.i + 1]
              /\ pc' = IF r.raised THEN "raised" ELSE "dims_save"
    /\ UNCHANGED <<static, api, log, ret>>

\* the dict is exhausted: the function returns
DimsReturn ==
    /\ pc = "dims_save" /\ loc.i > Len(loc.all_code_hrefs)
    /\ pc' = "done"
    /\ UNCHANGED <<static, api, loc, reqs, files, log, err, ret>>

NextDims ==
    \/ DimsBegin \/ DimsVersion \/ DimsGet \/ DimsEditions \/ DimsLink
    \/ DimsCodes \/ DimsRoot \/ DimsSave \/ DimsReturn

SpecDims == InitDims /\ [][NextDims]_vars

---------------------------------------------------------------------------
(* download_inflation *)

InflationVersionConnectText == "Failed to connect to ONS API endpoint for latest version. Please check the URL or your internet connection."
InflationVersionStatusText == "Error: Status code: {status_code} when requesting latest version."
InflationCsvConnectText == "Failed to connect to ONS API endpoint for CPIH csv download. Please check the URL or your internet connection."
InflationCsvStatusText == "Failed to download CPIH csv. Status code: {status_code}"

AttributeError == [type |-> "AttributeError", text |-> "get", code |-> 0]

CpihPath == <<"bronze_files/", "cpih", ".csv">>

\* lines 303-314: the datasets that "inflation" selects, cut to dataset_id,
\* and the href of its latest_version link
InflationLatestUrl(dataset_id, o1, o2, w) ==
    LET q == QueryOnsApi(DatasetsUrl, o1, o2, w, w)
    IN  IF q.raised
        THEN [raised |-> TRUE, err |-> q.err, reqs |-> q.reqs, url |-> <<>>]
        ELSE LET f == FilterDatasets(q.doc.items, TermStr(Inflation))
             IN  IF f.raised
                 THEN [raised |-> TRUE, err |-> f.err, reqs |-> q.reqs, url |-> <<>>]
                 ELSE LET cpih_df == RowsWhere(f.df.rows, dataset_id)
                      IN  IF cpih_df = <<>>
                          THEN [raised |-> TRUE, err |-> KeyError("latest_version"),
                                reqs |-> q.reqs, url |-> <<>>]
                          ELSE [raised |-> FALSE, err |-> NoErr, reqs |-> q.reqs,
                                url |-> cpih_df[1].latest_version]

\* lines 317-329: the version document, its downloads.csv.href, the root
InflationDownloadUrl(latest_url, o, w, e) ==
    IF ~o.conn
    THEN [raised |-> TRUE, err |-> ConnectError(InflationVersionConnectText), url |-> <<>>]
    ELSE IF o.status # 200
    THEN [raised |-> TRUE, err |-> StatusError(InflationVersionStatusText, o.status),
          url |-> <<>>]
    ELSE LET downloads == w.latest[latest_url[2]].downloads
         IN  IF downloads.t # "csv"
             THEN [raised |-> TRUE, err |-> AttributeError, url |-> <<>>]
             ELSE LET root == FindProjectRoot(e)
                  IN  IF root.raised
                      THEN [raised |-> TRUE, err |-> root.err, url |-> <<>>]
                      ELSE [raised |-> FALSE, err |-> NoErr, url |-> downloads.href]

\* lines 331-342: the status error raised inside the try is caught by the
\* bare except of the same try
InflationSave(download_url, o) ==
    IF ~o.conn
    THEN [raised |-> TRUE, err |-> ConnectError(InflationCsvConnectText), writes |-> <<>>]
    ELSE IF o.status = 200
    THEN [raised |-> FALSE, err |-> NoErr, writes |-> <<Write(CpihPath, download_url)>>]
    ELSE [raised |-> TRUE, err |-> ConnectError(InflationCsvConnectText), writes |-> <<>>]

---------------------------------------------------------------------------
(* Specification of download_inflation *)

Cpih == "cpih01"
CpihCsv == <<"http://x/y.csv">>

\* keywords of the price index: one that holds the word, one that shares only
\* letters with it, one that shares none, or no keywords at all
CpihKeywords ==
    {KwList(<<<<"I", "n", "f", "l", "a", "t", "i", "o", "n">>>>),
     KwList(<<<<"C", "P", "I", "H">>>>),
     KwList(<<<<"e", "g", "g", "s">>>>),
     NaN}

InflationDatasets ==
    {<<>>}
        \cup {<<Dataset(Cpih, k)>> : k \in CpihKeywords}
        \cup {<<Dataset("ashe-a", KwList(<<Earnings>>)), Dataset(Cpih, k)>> :
                 k \in CpihKeywords}
        \cup {<<Dataset("ashe-a", KwList(<<Earnings>>))>>}

InflationWorlds ==
    {[EmptyApi EXCEPT !.datasets = ds,
                      !.latest = [id \in {Cpih} |->
                                     Version("v-latest", id, "1", d, NoDimensions)]] :
        ds \in InflationDatasets,
        d \in {NoDownloads, NoCsv, NullCsv, Csv(CpihCsv)}}

InitInflation ==
    /\ prog = "download_inflation"
    /\ api \in InflationWorlds
    /\ env \in [marker : RootStates]
    /\ inp = [NoInput EXCEPT !.dataset_id = Cpih]
    /\ loc = NoLocals
    /\ pc = "inf_start"
    /\ Untouched

\* lines 302-314 of download_inflation
InfDatasets ==
    /\ pc = "inf_start"
    /\ \E o1, o2 \in Outcomes :
          LET r == InflationLatestUrl(inp.dataset_id, o1, o2, api)
          IN  /\ reqs' = reqs \o r.reqs
              /\ err' = r.err
              /\ loc' = [loc EXCEPT !.latest_url = r.url]
              /\ pc' = IF r.raised THEN "raised" ELSE "inf_version"
    /\ UNCHANGED <<static, api, files, log, ret>>

\* lines 316-329 of download_inflation
InfVersion ==
    /\ pc = "inf_version"
    /\ \E o \in Outcomes :
          LET r == InflationDownloadUrl(loc.latest_url, o, api, env)
          IN  /\ reqs' = Append(reqs, Exchange(loc.latest_url, NoLimit, o, NoDoc))
              /\ err' = r.err
              /\ loc' = [loc EXCEPT !.download_url = r.url]
              /\ pc' = IF r.raised THEN "raised" ELSE "inf_csv"
    /\ UNCHANGED <<static, api, files, log, ret>>

\* lines 331-342 of download_inflation
InfCsv ==
    /\ pc = "inf_csv"
    /\ \E o \in Outcomes :
          LET r == InflationSave(loc.download_url, o)
          IN  /\ reqs' = Append(reqs, Exchange(loc.download_url, NoLimit, o, NoDoc))
              /\ err' = r.err
              /\ files' = files \o r.writes
              /\ pc' = IF r.raised THEN "raised"
                       ELSE IF prog = "download_inflation" THEN "done"
                       ELSE "run_datasets"
    /\ UNCHANGED <<static, api, loc, log, ret>>

NextInflation == InfDatasets \/ InfVersion \/ InfCsv

SpecInflation == InitInflation /\ [][NextInflation]_vars

---------------------------------------------------------------------------
(* get_versions_from_datasets *)

\* an item of an editions collection, with its versions link
Edition(id) == [id |-> id, versions |-> <<"versions", id>>]

\* lines 111-121: the editions href(s) of the dataset in source_df
EditionHrefs(dataset_id, source_df) ==
    LET mine == RowsWhere(source_df.rows, dataset_id)
    IN  [i \in 1..Len(mine) |-> mine[i].editions]

\* lines 127-139: the edition items of the responses and their versions hrefs
VersionHrefs(editions_responses) ==
    LET edition_items == Flatten([i \in 1..Len(editions_responses) |->
                                     editions_responses[i].items])
    IN  IF edition_items = <<>>
        THEN [raised |-> TRUE, err |-> KeyError("links"), hrefs |-> <<>>]
        ELSE [raised |-> FALSE, err |-> NoErr,
              hrefs |-> [i \in 1..Len(edition_items) |-> edition_items[i].versions]]

\* lines 145-148: pd.concat of the version items of the responses
ConcatVersionItems(version_responses) ==
    VersionFrame(Flatten([i \in 1..Len(version_responses) |->
                             version_responses[i].items]))

---------------------------------------------------------------------------
(* run_data_extraction: lines 18-21 *)

\* versions_df = pd.concat(versions), without the drop_duplicates of line 20
VersionsTableWithDuplicates(versions) ==
    IF versions = <<>>
    THEN [raised |-> TRUE, err |-> ValueError(NoObjectsText), df |-> EmptyFrame]
    ELSE LET all == Flatten([i \in 1..Len(versions) |-> versions[i].rows])
             columns == UNION {versions[i].columns : i \in 1..Len(versions)}
         IN  IF "id" \notin columns
             THEN [raised |-> TRUE, err |-> KeyError("id"), df |-> EmptyFrame]
             ELSE [raised |-> FALSE, err |-> NoErr,
                   df |-> [columns |-> columns, rows |-> all]]

\* versions_df = pd.concat(versions).drop_duplicates(subset = "id")
VersionsTable(versions) ==
    IF versions = <<>>
    THEN [raised |-> TRUE, err |-> ValueError(NoObjectsText), df |-> EmptyFrame]
    ELSE LET all == Flatten([i \in 1..Len(versions) |-> versions[i].rows])
             columns == UNION {versions[i].columns : i \in 1..Len(versions)}
         IN  IF "id" \notin columns
             THEN [raised |-> TRUE, err |-> KeyError("id"), df |-> EmptyFrame]
             ELSE [raised |-> FALSE, err |-> NoErr,
                   df |-> [columns |-> columns, rows |-> DropDuplicatesById(all)]]

---------------------------------------------------------------------------
(* Specification of the pipeline script run_data_extraction *)

V1 == Version("v1", "ashe-a", "1", Csv(<<"csv", "v1">>), Dimensions(<<"sex", "year">>))
V2 == Version("v2", "ashe-a", "1", Csv(<<"csv", "v2">>), Dimensions(<<"sex">>))

VersionLists == {<<>>, <<V1>>, <<V2>>, <<V1, V2>>}

EditionIds == {"a-2021", "a-2022", "b-2021"}

\* the catalogue: the price index and two earnings datasets; the first has
\* no, one or two editions, the second none or one; every edition serves
\* none, one or both of two versions; the document of the dimension "sex"
\* has an editions entry or has none
PipelineWorlds ==
    {[EmptyApi EXCEPT
        !.datasets = <<Dataset(Cpih, KwList(<<Inflation>>)),
                       Dataset("ashe-a", KwList(<<<<"A", "S", "H", "E">>>>)),
                       Dataset("ashe-b", KwList(<<<<"E", "a", "r", "n", "i", "n", "g", "s">>>>))>>,
        !.latest = [id \in {Cpih} |->
                       Version("v-latest", id, "1", Csv(CpihCsv), NoDimensions)],
        !.editions = [id \in {"ashe-a", "ashe-b"} |-> IF id = "ashe-a" THEN ea ELSE eb],
        !.versions = vs,
        !.dimdoc = [n \in DimNames |-> IF n = "sex" THEN sexdoc ELSE "ok"],
        !.dimeditions = [n \in DimNames |-> <<CodesLink(CodesHref(n, "one-off"))>>],
        !.codes = [h \in AllCodesHrefs |-> CodeItems(h)]] :
        ea \in {<<>>, <<Edition("a-2021")>>, <<Edition("a-2021"), Edition("a-2022")>>},
        eb \in {<<>>, <<Edition("b-2021")>>},
        vs \in [EditionIds -> VersionLists],
        sexdoc \in {"ok", "noeditions"}}

InitPipeline ==
    /\ prog = "run_data_extraction"
    /\ api \in PipelineWorlds
    /\ env \in [marker : RootStates]
    /\ inp = [NoInput EXCEPT !.dataset_id = Cpih, !.search_terms = DefaultTerms]
    /\ loc = NoLocals
    /\ pc = "inf_start"
    /\ Untouched

\* lines 14-15: ashe_datasets = get_ashe_datasets() and its ids
RunDatasets ==
    /\ pc = "run_datasets"
    /\ \E o1, o2 \in Outcomes :
          LET q == QueryOnsApi(DatasetsUrl, o1, o2, api, api)
              f == FilterDatasets(q.doc.items, inp.search_terms)
          IN  /\ reqs' = reqs \o q.reqs
              /\ IF q.raised \/ f.raised
                 THEN /\ err' = IF q.raised THEN q.err ELSE f.err
                      /\ pc' = "raised"
                      /\ UNCHANGED loc
                 ELSE /\ loc' = [loc EXCEPT
                                    !.ashe_datasets = f.df,
                                    !.dataset_ids = [i \in 1..Len(f.df.rows) |->
                                                        f.df.rows[i].id],
                                    !.k = 1, !.versions = <<>>]
                      /\ pc' = "run_versions"
                      /\ UNCHANGED err
    /\ UNCHANGED <<static, api, files, log, ret>>

\* get_versions_from_datasets, lines 111-139, for the next dataset id; the
\* table holds one row per id, so one editions href is queried
GvEditions ==
    /\ pc = "run_versions" /\ loc.k <= Len(loc.dataset_ids)
    /\ \E o1, o2 \in Outcomes :
          LET edition_hrefs == EditionHrefs(loc.dataset_ids[loc.k], loc.ashe_datasets)
              q == QueryOnsApi(edition_hrefs[1], o1, o2, api, api)
              v == VersionHrefs(<<q.doc>>)
          IN  /\ Len(edition_hrefs) = 1
              /\ reqs' = reqs \o q.reqs
              /\ IF q.raised \/ v.raised
                 THEN /\ err' = IF q.raised THEN q.err ELSE v.err
                      /\ pc' = "raised"
                      /\ UNCHANGED loc
                 ELSE /\ loc' = [loc EXCEPT !.version_hrefs = v.hrefs,
                                            !.version_responses = <<>>]
                      /\ pc' = "gv_versions"
                      /\ UNCHANGED err
    /\ UNCHANGED <<static, api, files, log, ret>>

\* line 142, one element: query_ons_api(v)
GvVersion ==
    /\ pc = "gv_versions" /\ Len(loc.version_responses) < Len(loc.version_hrefs)
    /\ \E o1, o2 \in Outcomes :
          LET q == QueryOnsApi(loc.version_hrefs[Len(loc.version_responses) + 1],
                               o1, o2, api, api)
          IN  /\ reqs' = reqs \o q.reqs
              /\ err' = q.err
              /\ loc' = IF q.raised THEN loc
                        ELSE [loc EXCEPT !.version_responses = Append(@, q.doc)]
              /\ pc' = IF q.raised THEN "raised" ELSE "gv_versions"
    /\ UNCHANGED <<static, api, files, log, ret>>

\* lines 145-148: the function returns the table of its version items
GvReturn ==
    /\ pc = "gv_versions" /\ Len(loc.version_responses) = Len(loc.version_hrefs)
    /\ loc' = [loc EXCEPT !.versions = Append(@, ConcatVersionItems(loc.version_responses)),
                          !.k = loc.k + 1]
    /\ pc' = "run_versions"
    /\ UNCHANGED <<static, api, reqs, files, log, err, ret>>

\* lines 19-21: the deduplicated versions table and its ids
RunConcat ==
    /\ pc = "run_versions" /\ loc.k > Len(loc.dataset_ids)
    /\ LET t == VersionsTable(loc.versions)
       IN  /\ err' = t.err
           /\ loc' = [loc EXCEPT !.versions_df = t.df,
                                 !.version_ids = [i \in 1..Len(t.df.rows) |-> t.df.rows[i].id],
                                 !.k = 1]
           /\ pc' = IF t.raised THEN "raised" ELSE "run_obs"
    /\ UNCHANGED <<static, api, reqs, files, log, ret>>

\* lines 24-25: the next call of download_observations_from_versions
RunObs ==
    /\ pc = "run_obs" /\ loc.k <= Len(loc.version_ids)
    /\ loc' = [loc EXCEPT !.version_id = loc.version_ids[loc.k],
                          !.source_df = loc.versions_df,
                          !.k = loc.k + 1]
    /\ pc' = "obs_start"
    /\ UNCHANGED <<static, api, reqs, files, log, err, ret>>

\* line 28: download_dimensions_from_versions(versions_df)
RunDims ==
    /\ pc = "run_obs" /\ loc.k > Len(loc.version_ids)
    /\ loc' = [loc EXCEPT !.source_df = loc.versions_df]
    /\ pc' = "dims_start"
    /\ UNCHANGED <<static, api, reqs, files, log, err, ret>>

NextPipeline ==
    \/ InfDatasets \/ InfVersion \/ InfCsv
    \/ RunDatasets \/ GvEditions \/ GvVersion \/ GvReturn \/ RunConcat
    \/ RunObs \/ ObsBegin \/ ObsLoop \/ ObsReturn
    \/ RunDims \/ NextDims

SpecPipeline == InitPipeline /\ [][NextPipeline]_vars

---------------------------------------------------------------------------
(* Properties *)

Finished == pc \in {"done", "raised"}

\* C1: every query_ons_api call issues one request without parameters, then
\* one request to the same url with limit = total_count of the first
\* response, and returns the document of the second response; a request
\* that fails to connect or answers a status other than 200 ends the call
\* with an exception and no document, and no request follows a failed one.
CountThenFetchAll ==
    (prog = "query_ons_api" /\ Finished) =>
        /\ Len(reqs) \in {1, 2}
        /\ reqs[1].url = inp.url /\ reqs[1].limit = NoLimit
        /\ Failed(reqs[1]) =>
              /\ Len(reqs) = 1
              /\ pc = "raised" /\ err.type = "Exception" /\ ret = NoDoc
        /\ ~Failed(reqs[1]) =>
              /\ Len(reqs) = 2
              /\ reqs[2].url = inp.url
              /\ reqs[2].limit = reqs[1].doc.total_count
              /\ Failed(reqs[2]) =>
                    pc = "raised" /\ err.type = "Exception" /\ ret = NoDoc
              /\ ~Failed(reqs[2]) =>
                    pc = "done" /\ err = NoErr /\ ret = reqs[2].doc

\* a call that fetched more than a default page with its second request
CountThenFetchAllWitness ==
    /\ prog = "query_ons_api" /\ pc = "done"
    /\ Len(reqs) = 2
    /\ reqs[2].limit > DefaultPageSize
    /\ Len(ret.items) = reqs[2].limit

\* C2: when the final response of query_ons_api reports total_count = N,
\* the returned document holds exactly N items, also when the collection
\* changes size between the two requests.
ReturnsTotalCountItems ==
    (prog = "query_ons_api" /\ pc = "done") =>
        Len(ret.items) = ret.total_count

\* the keywords of a dataset as the API serves them
KeywordsOf(d) == IF d.keywords.t = "list" THEN Range(d.keywords.v) ELSE {}

\* some keyword of d contains some term, compared without case
MatchesAnyTerm(d, terms) ==
    \E k \in KeywordsOf(d), j \in 1..Len(terms) :
        Contains(Lower(k), Lower(terms[j]))

MatchingIds(items, terms) ==
    {items[i].id : i \in {j \in 1..Len(items) : MatchesAnyTerm(items[j], terms)}}

Permutation(s, t) ==
    /\ Len(s) = Len(t)
    /\ \E f \in [1..Len(s) -> 1..Len(s)] :
          /\ \A i, j \in 1..Len(s) : f[i] = f[j] => i = j
          /\ \A i \in 1..Len(s) : t[i] = s[f[i]]

\* C3: for every collection and every search-term list the filter returns
\* exactly the datasets with a keyword that contains a term (without case);
\* the identifiers are the same for every permutation of the terms, and
\* filtering the result again returns the same identifiers.
FilterIsUnionOfTerms ==
    prog = "filter" =>
        /\ pc # "raised" /\ pc # "raised_again"
        /\ pc \in {"filtered", "done"} =>
              /\ Ids(ret) = MatchingIds(inp.items, inp.search_terms.v)
              /\ \A t \in SeqsUpTo(TermPool, MaxTerms) :
                    Permutation(inp.search_terms.v, t) =>
                        Ids(FilterDatasets(inp.items, TermList(t)).df) = Ids(ret)
        /\ pc = "done" => Ids(loc.again) = Ids(ret)

\* C10: the standalone get_ashe_datasets filters the full collection: every
\* dataset of the collection with a matching keyword is in the result.
StandaloneFiltersAllDatasets ==
    (prog = "standalone" /\ pc = "done") =>
        MatchingIds(api.datasets, inp.search_terms.v) \subseteq Ids(ret)

\* the version record(s) of the requested id hold no csv link
NoCsvLink ==
    \A i \in 1..Len(inp.source_df.rows) :
        inp.source_df.rows[i].id = inp.version_id =>
            inp.source_df.rows[i].downloads.t # "csv"

\* C5: download_observations_from_versions for a version without a csv link
\* (or without downloads) does not raise: the version is filtered out, no
\* download is requested and no file is written.  Stated where the project
\* root resolves, so that only the filtering decides it.
MissingCsvIsFilteredOut ==
    (/\ prog = "download_observations_from_versions"
     /\ env.marker = "found"
     /\ NoCsvLink)
        => (pc # "raised" /\ reqs = <<>> /\ files = <<>>)

ConnectTexts == {QueryConnectText}

DimsOfRow(row) == IF row.dimensions.t = "list" THEN Range(row.dimensions.v) ELSE {}

ReferencedDims == UNION {DimsOfRow(inp.source_df.rows[i]) : i \in 1..Len(inp.source_df.rows)}

\* the dimension href answers 404 or a document without an editions entry
Malformed(name) == api.dimdoc[name] # "ok"

\* the codes hrefs that a fully resolving dimension leads to
CodesOf(name) ==
    {api.dimeditions[name][i].href : i \in 1..Len(api.dimeditions[name])}

ResolvesFully(name) ==
    /\ api.dimdoc[name] = "ok"
    /\ api.dimeditions[name] # <<>>
    /\ \A i \in 1..Len(api.dimeditions[name]) : api.dimeditions[name][i].t = "codes"

IsDimensionHref(url) == Len(url) = 2 /\ url[1] = "code-lists"

\* nothing but malformed dimensions is wrong: every request connected, every
\* other request was answered 200, every body is JSON, the project root
\* resolves, every version lists a dimension, and every dimension that is
\* not malformed resolves fully
OnlyMalformedDimensions ==
    /\ env.marker = "found"
    /\ \A n \in DimNames : api.dimdoc[n] # "404text"
    /\ \A i \in 1..Len(reqs) :
          reqs[i].conn /\ (reqs[i].status = 200 \/ IsDimensionHref(reqs[i].url))
    /\ inp.source_df.rows # <<>>
    /\ \A i \in 1..Len(inp.source_df.rows) : DimsOfRow(inp.source_df.rows[i]) # {}
    /\ \A n \in ReferencedDims : Malformed(n) \/ ResolvesFully(n)

Saved == {files[i].body : i \in 1..Len(files)}

\* C6: a dimension href that answers 404 or a document without editions is
\* skipped with a logged warning and never aborts the operation: every
\* sibling dimension that resolves fully has its code list fetched and
\* saved, also when all dimensions of one version are malformed.
MalformedDimensionIsSkipped ==
    (/\ prog = "download_dimensions_from_versions"
     /\ Finished
     /\ OnlyMalformedDimensions)
        => /\ pc = "done"
           /\ \A n \in ReferencedDims : ResolvesFully(n) => CodesOf(n) \subseteq Saved
           /\ (\E n \in ReferencedDims : Malformed(n)) => log # <<>>

\* the dataset is served and carries a keyword that holds "inflation"
IsInflationDataset(id) ==
    \E i \in 1..Len(api.datasets) :
        /\ api.datasets[i].id = id
        /\ MatchesAnyTerm(api.datasets[i], <<Inflation>>)

AllAnswered200 == \A i \in 1..Len(reqs) : reqs[i].conn /\ reqs[i].status = 200

\* C7: download_inflation requests the version document at the dataset's
\* latest_version.href, then exactly the url of that document's
\* downloads.csv.href, and writes the response to bronze_files/cpih.csv; no
\* editions or versions collection is requested and no other file written.
LatestValueFastPath ==
    prog = "download_inflation" =>
        /\ \A i \in 1..Len(reqs) : reqs[i].url[1] \notin {"editions", "versions"}
        /\ \A i \in 1..Len(files) : files[i].path = CpihPath
        /\ (/\ Finished
            /\ IsInflationDataset(inp.dataset_id)
            /\ api.latest[inp.dataset_id].downloads.t = "csv"
            /\ AllAnswered200)
              => /\ pc = "done"
                 /\ Len(reqs) = 4
                 /\ reqs[1].url = DatasetsUrl /\ reqs[2].url = DatasetsUrl
                 /\ reqs[3].url = <<"version", inp.dataset_id>>
                 /\ reqs[4].url = api.latest[inp.dataset_id].downloads.href
                 /\ files = <<Write(CpihPath, api.latest[inp.dataset_id].downloads.href)>>

\* the ids of the rows of the versions table that the downloads read
VersionTableIds == [i \in 1..Len(loc.versions_df.rows) |-> loc.versions_df.rows[i].id]

\* the keys of the all_code_hrefs dict, in insertion order
RecordedCodeHrefs == [i \in 1..Len(loc.all_code_hrefs) |-> loc.all_code_hrefs[i].key]

\* the query_ons_api calls made for url: each opens with the request
\* without parameters
CallsOf(url) == {i \in 1..Len(reqs) : reqs[i].url = url /\ reqs[i].limit = NoLimit}

\* C4: deduplication is total: in the pipeline no version id appears twice
\* in the versions table used for the downloads (nor in the list of ids
\* looped over), and in download_dimensions_from_versions no code-list
\* href is recorded twice, queried by more than one query_ons_api call or
\* saved twice, also when the same version is served by several editions and
\* the same dimension is listed by several versions.
DeduplicationIsTotal ==
    prog = "run_data_extraction" =>
        /\ NoDuplicates(VersionTableIds)
        /\ NoDuplicates(loc.version_ids)
        /\ NoDuplicates(RecordedCodeHrefs)
        /\ \A h \in AllCodesHrefs : Cardinality(CallsOf(h)) <= 1
        /\ \A i, j \in 1..Len(files) :
              (files[i].body \in AllCodesHrefs /\ files[i].body = files[j].body) => i = j

\* a finished run in which one version was resolved more than once (two
\* editions serve it), both versions reached the table, both list the
\* dimension sex, and its code list was recorded, queried and saved
DeduplicationIsTotalWitness ==
    /\ prog = "run_data_extraction" /\ pc = "done"
    /\ Len(Flatten([i \in 1..Len(loc.versions) |-> loc.versions[i].rows]))
          > Len(loc.versions_df.rows)
    /\ Range(loc.version_ids) = {"v1", "v2"}
    /\ CodesHref("sex", "one-off") \in Range(RecordedCodeHrefs)
    /\ Cardinality(CallsOf(CodesHref("sex", "one-off"))) = 1
    /\ Cardinality(CallsOf(EditionsHref("sex"))) = 2
    /\ CodesHref("sex", "one-off") \in Saved

\* an expected resource of the run is empty: an earnings dataset without
\* editions, an edition of one without versions, or a version in the table
\* none of whose dimensions has an editions entry
SomeEmptyResult ==
    \/ \E d \in DOMAIN api.editions : api.editions[d] = <<>>
    \/ \E d \in DOMAIN api.editions : \E i \in 1..Len(api.editions[d]) :
          api.versions[api.editions[d][i].id] = <<>>
    \/ \E i \in 1..Len(loc.versions_df.rows) :
          \A n \in DimsOfRow(loc.versions_df.rows[i]) : Malformed(n)

\* C9: an empty result set for an expected resource (a dataset without
\* editions, an edition without versions, a version without resolvable
\* dimensions) is handled by logging a warning and continuing: when nothing
\* else goes wrong the run is not aborted and a warning was logged.
EmptyResultIsSkipped ==
    (/\ prog = "run_data_extraction"
     /\ Finished
     /\ env.marker = "found"
     /\ AllAnswered200
     /\ SomeEmptyResult)
        => /\ pc = "done"
           /\ log # <<>>

===========================================================================
